---- MODULE Spec2Model ----
(***************************************************************************)
(* Queue management subsystem of sTrEATs Live (server.js): the queues and  *)
(* queue_entries tables, and the request handlers that read and write      *)
(* them.  Every handler is a chain of sqlite statements; each statement    *)
(* runs atomically, and the statements of different requests interleave.   *)
(* With them, the customer's ticket view (the QueueSystem component), which *)
(* joins the queue and polls the status of its ticket.                     *)
(***************************************************************************)
EXTENDS Integers, Sequences, FiniteSets, Bags, TLC

\* ------------------------------------------------------------------ bounds
NumVendors == 2
MaxQueues == 2
MaxEntries == 2
MaxReq == 2
MaxPolls == 2
MaxRaceEntries == 3

Vendors == 1..NumVendors

\* ------------------------------------------------------- JavaScript values
\* A request field is a tagged value, so that truthiness is computed as
\* JavaScript computes it.
Undefined == [t |-> "undefined", v |-> 0]
Null == [t |-> "null", v |-> 0]
Num(n) == [t |-> "number", v |-> n]
Arr(n) == [t |-> "array", v |-> n]

\* !x is true for undefined, for null and for 0; an array, even the empty one,
\* is truthy.
Truthy(x) ==
    CASE x.t = "undefined" -> FALSE
      [] x.t = "null" -> FALSE
      [] x.t = "number" -> x.v # 0
      [] x.t = "array" -> TRUE

\* The request bodies tried: items is an array of dish ids (one id stands for
\* one {dishId, quantity, name, price} snapshot).
DishIds == {1, 2}
VendorIdInputs == {Undefined} \cup {Num(v) : v \in Vendors}
ItemsInputs == {Undefined, Arr(<<>>), Arr(<<1>>)}
TotalInputs == {Undefined, Num(0), Num(12)}

\* JSON.stringify(items) and JSON.parse(entry.items): the text of an array is
\* the bracketed list of the texts of its elements, and parsing reads it back.
JSONStringify(x) == <<"[">> \o [i \in 1..Len(x.v) |-> ToString(x.v[i])] \o <<"]">>
ParseElement(s) == CHOOSE d \in DishIds : ToString(d) = s
JSONParse(s) == Arr([i \in 1..(Len(s) - 2) |-> ParseElement(s[i + 1])])

\* ------------------------------------------------------------------- state
\* vendors, queues, queue_entries: the tables.  req: the bag of the requests in
\* flight, each with its closure variables and its pending statement.  res:
\* the response sent by the step just taken, if it sent one.
VARIABLES vendors, queues, queue_entries, req, res

\* dishes: the menu table (the price of each dish).
VARIABLES dishes

\* The customer's QueueSystem component.  queueStatus, isJoining: its state.
\* mounted: the view is open.  interval: the timer of the polling effect, with
\* the queueStatus fields its callback closes over.  fetches: the bag of its
\* HTTP requests under way.  notifications, console: what the step just taken
\* passed to onNotification and to console.error.
VARIABLES queueStatus, isJoining, mounted, interval, fetches, notifications, console

vars == <<vendors, queues, queue_entries, req, res, dishes,
          queueStatus, isJoining, mounted, interval, fetches, notifications, console>>

store == <<vendors, queues, queue_entries>>

\* A step of the server alone leaves the component as it is and has it emit
\* nothing.
Untouched ==
    /\ notifications' = <<>>
    /\ console' = <<>>
    /\ UNCHANGED <<queueStatus, isJoining, mounted, interval, fetches>>

\* A step of a queue handler: the menu is neither read nor written.
QueueOnly == UNCHANGED dishes /\ Untouched

\* The prices a dish is given: the one it is seeded with, the one of an edit.
Prices == {12, 15}

Request ==
    [op |-> "none", pc |-> "none", vendorId |-> Undefined, items |-> Undefined,
     totalAmount |-> Undefined, queueId |-> 0, nextQueueNumber |-> 0,
     position |-> 0, estimatedWait |-> 0, arg |-> 0]

NoRes == [code |-> 0, kind |-> "none"]

\* res.status(c).json({ error: ... })
ErrRes(c, k) == [code |-> c, kind |-> k]

\* The tables are empty after CREATE TABLE; the seeded vendors start offline.
Init ==
    /\ vendors = [v \in Vendors |-> [isOnline |-> FALSE]]
    /\ queues = <<>>
    /\ queue_entries = <<>>
    /\ req = EmptyBag
    /\ res = NoRes
    /\ dishes = [d \in DishIds |-> [price |-> 12]]
    /\ queueStatus = [isInQueue |-> FALSE, queueNumber |-> Null, position |-> Null,
                      estimatedWait |-> Null, status |-> "waiting",
                      items |-> Arr(<<>>), totalAmount |-> 0]
    /\ isJoining = FALSE
    /\ mounted = TRUE
    /\ interval = [on |-> FALSE, queueNumber |-> Null, position |-> Null]
    /\ fetches = EmptyBag
    /\ notifications = <<>>
    /\ console = <<>>

\* ----------------------------------------------------------------- queries
Min(S) == CHOOSE x \in S : \A y \in S : x <= y
Max(S) == CHOOSE x \in S : \A y \in S : x >= y

\* SELECT * FROM queues WHERE vendor_id = ? AND is_active = 1 (db.get: the
\* first row of the table scan, 0 for no row).
ActiveQueueIds(vendorId) ==
    {q \in 1..Len(queues) : queues[q].vendor_id = vendorId /\ queues[q].is_active}
SelectActiveQueue(vendorId) ==
    IF ActiveQueueIds(vendorId) = {} THEN 0 ELSE Min(ActiveQueueIds(vendorId))

EntriesOf(queueId) ==
    {e \in 1..Len(queue_entries) : queue_entries[e].queue_id = queueId}

\* Mutant: the WHERE queue_id = ? is forgotten.
SelectMaxNumberAnyQueue(queueId) ==
    IF queue_entries = <<>> THEN 0
    ELSE Max({queue_entries[e].queue_number : e \in 1..Len(queue_entries)})

\* Mutant: the next number is taken from the tickets still waiting.
NextQueueNumberOfWaiting(queueId) ==
    LET waiting == {e \in EntriesOf(queueId) : queue_entries[e].status = "waiting"} IN
    IF waiting = {} THEN 1
    ELSE Max({queue_entries[e].queue_number : e \in waiting}) + 1

\* SELECT MAX(queue_number) ... WHERE queue_id = ?; (result.maxNumber || 0) + 1
SelectMaxNumber(queueId) ==
    IF EntriesOf(queueId) = {} THEN 0
    ELSE Max({queue_entries[e].queue_number : e \in EntriesOf(queueId)})
NextQueueNumber(queueId) == SelectMaxNumber(queueId) + 1

\* SELECT COUNT(*) ... WHERE queue_id = ? AND status = "waiting"
CountWaiting(queueId) ==
    Cardinality({e \in EntriesOf(queueId) : queue_entries[e].status = "waiting"})

\* Mutant: the status query forgets q.vendor_id = ?.
StatusRowsAnyVendor(queueNumber, vendorId) ==
    {e \in 1..Len(queue_entries) : queue_entries[e].queue_number = queueNumber}

\* The row the status query returns: queue_entries joined with queues on
\* queue_id, filtered by queue_number and the queue's vendor_id; db.get keeps
\* the first row of the scan of queue_entries (0 for no row).
StatusRows(queueNumber, vendorId) ==
    {e \in 1..Len(queue_entries) :
        /\ queue_entries[e].queue_number = queueNumber
        /\ queue_entries[e].queue_id \in 1..Len(queues)
        /\ queues[queue_entries[e].queue_id].vendor_id = vendorId}
SelectStatusRow(queueNumber, vendorId) ==
    IF StatusRows(queueNumber, vendorId) = {} THEN 0
    ELSE Min(StatusRows(queueNumber, vendorId))

\* Mutant: the subquery compares with <= and counts the ticket itself.
current_positionUpTo(e) ==
    Cardinality({e2 \in EntriesOf(queue_entries[e].queue_id) :
        /\ queue_entries[e2].status = "waiting"
        /\ queue_entries[e2].queue_number <= queue_entries[e].queue_number}) + 1

\* Mutant: the subquery forgets qe2.status = 'waiting'.
current_positionAnyStatus(e) ==
    Cardinality({e2 \in EntriesOf(queue_entries[e].queue_id) :
        queue_entries[e2].queue_number < queue_entries[e].queue_number}) + 1

\* The subquery of the status query: (SELECT COUNT(*) ... qe2.status =
\* 'waiting' AND qe2.queue_number < qe.queue_number) + 1 as current_position
current_position(e) ==
    Cardinality({e2 \in EntriesOf(queue_entries[e].queue_id) :
        /\ queue_entries[e2].status = "waiting"
        /\ queue_entries[e2].queue_number < queue_entries[e].queue_number}) + 1

\* ---------------------------------------------------- POST /api/queue/join
Started(op, pc, vendorId, items, totalAmount) ==
    [Request EXCEPT !.op = op, !.pc = pc, !.vendorId = vendorId, !.items = items,
                    !.totalAmount = totalAmount]

InFlight == BagToSet(req)

JoinsInFlight == {q \in InFlight : q.op = "join"}

NoJoinInFlight == \A q \in InFlight : q.op # "join"

NoneInFlight == req = EmptyBag

\* Request q is over / goes on as q2 / a new request q2 is in flight.
Finished(q) == req (-) SetToBag({q})
Continued(q, q2) == (req (-) SetToBag({q})) (+) SetToBag({q2})
Accepted(q2) == req (+) SetToBag({q2})

\* Mutant: the failed INSERT of a join leaves its row behind.
FailAfterInsert(q) ==
    /\ req' = Finished(q)
    /\ res' = ErrRes(500, q.op)
    /\ queue_entries' =
          IF q.op = "join" /\ q.pc = "insert"
          THEN Append(queue_entries,
                      [queue_id |-> q.queueId, queue_number |-> q.nextQueueNumber,
                       items |-> <<"[", "]">>, total_amount |-> q.totalAmount.v,
                       status |-> "waiting", estimated_wait |-> q.estimatedWait])
          ELSE queue_entries
    /\ UNCHANGED <<vendors, queues>>

\* A statement of request q failed: the callback answers 500 and returns.
Fail(q) ==
    /\ req' = Finished(q)
    /\ res' = ErrRes(500, q.op)
    /\ UNCHANGED store

\* Mutant: totalAmount is not checked.
MissingVendorOrItems(vendorId, items, totalAmount) ==
    ~Truthy(vendorId) \/ ~Truthy(items)

\* if (!vendorId || !items || !totalAmount) -> 400
MissingRequiredFields(vendorId, items, totalAmount) ==
    ~Truthy(vendorId) \/ ~Truthy(items) \/ ~Truthy(totalAmount)

\* The server takes one more join while fewer than MaxReq requests are in
\* flight and the entries there are, with those the joins in flight may add,
\* are fewer than n.
Room(n) ==
    /\ BagCardinality(req) < MaxReq
    /\ Len(queue_entries) + Cardinality(JoinsInFlight) < n

\* The request arrives: validation, then SELECT * FROM queues WHERE
\* vendor_id = ? AND is_active = 1, whose callback creates the queue or goes on
\* to processJoinQueue(queue.id).
JoinRequest(vendorId, items, totalAmount, err) ==
    /\ IF MissingRequiredFields(vendorId, items, totalAmount)
       THEN /\ req' = req
            /\ res' = ErrRes(400, "join")
       ELSE IF err
       THEN /\ req' = req
            /\ res' = ErrRes(500, "join")
       ELSE LET queue == SelectActiveQueue(vendorId.v) IN
            /\ req' = Accepted(
                  [Started("join", IF queue = 0 THEN "createQueue" ELSE "getMax",
                           vendorId, items, totalAmount)
                     EXCEPT !.queueId = queue])
            /\ res' = NoRes
    /\ UNCHANGED store

\* INSERT INTO queues (vendor_id, is_active, current_serving_number) VALUES (?, 1, 0)
NewQueue(vendorId) ==
    [vendor_id |-> vendorId, is_active |-> TRUE, current_serving_number |-> 0]

\* if (!queue): the queue is created, then processJoinQueue(this.lastID)
JoinCreateQueue(q, err) ==
    /\ q.op = "join" /\ q.pc = "createQueue"
    /\ IF err THEN Fail(q)
       ELSE /\ Len(queues) < MaxQueues
            /\ queues' = Append(queues, NewQueue(q.vendorId.v))
            /\ req' = Continued(q, [q EXCEPT !.pc = "getMax", !.queueId = Len(queues) + 1])
            /\ res' = NoRes
            /\ UNCHANGED <<vendors, queue_entries>>

\* processJoinQueue: SELECT MAX(queue_number)
JoinGetMax(q, err) ==
    /\ q.op = "join" /\ q.pc = "getMax"
    /\ IF err THEN Fail(q)
       ELSE /\ req' = Continued(q, [q EXCEPT !.pc = "getCount",
                                             !.nextQueueNumber = NextQueueNumber(q.queueId)])
            /\ res' = NoRes
            /\ UNCHANGED store

\* Mutant: the wait counts only the tickets ahead.
EstimatedWaitAhead(position) == (position - 1) * 5

\* Mutant: the position counts the completed tickets too.
JoinPositionAllEntries(queueId) == Cardinality(EntriesOf(queueId)) + 1

\* const estimatedWait = position * 5
EstimatedWait(position) == position * 5

\* const position = positionResult.position + 1
JoinPosition(queueId) == CountWaiting(queueId) + 1

\* processJoinQueue: SELECT COUNT(*) as position ... status = "waiting"
JoinGetCount(q, err) ==
    /\ q.op = "join" /\ q.pc = "getCount"
    /\ IF err THEN Fail(q)
       ELSE LET position == JoinPosition(q.queueId) IN
            /\ req' = Continued(q, [q EXCEPT !.pc = "insert",
                                             !.position = position,
                                             !.estimatedWait = EstimatedWait(position)])
            /\ res' = NoRes
            /\ UNCHANGED store

\* INSERT INTO queue_entries (...) VALUES (?, ?, ?, ?, ?, "waiting", ?)
\* customer_name, created_at and updated_at are left out of the row: no handler
\* branches on them or computes a number, a position or a wait from them.
NewEntry(q) ==
    [queue_id |-> q.queueId, queue_number |-> q.nextQueueNumber,
     items |-> JSONStringify(q.items), total_amount |-> q.totalAmount.v,
     status |-> "waiting", estimated_wait |-> q.estimatedWait]

\* res.json({ success: true, queueEntryId: this.lastID, ... }), with the
\* request it answers
JoinResponse(q, lastID) ==
    [code |-> 200, kind |-> "join", vendorId |-> q.vendorId.v, items |-> q.items,
     totalAmount |-> q.totalAmount.v, queueId |-> q.queueId, queueEntryId |-> lastID,
     queueNumber |-> q.nextQueueNumber, position |-> q.position,
     estimatedWait |-> q.estimatedWait]

JoinInsert(q, err) ==
    /\ q.op = "join" /\ q.pc = "insert"
    /\ IF err THEN Fail(q)
       ELSE /\ queue_entries' = Append(queue_entries, NewEntry(q))
            /\ req' = Finished(q)
            /\ res' = JoinResponse(q, Len(queue_entries) + 1)
            /\ UNCHANGED <<vendors, queues>>

\* ------------------------------------------------- GET /api/queue/:vendorId
SummaryResponse(queueId, vendorId, serving, count) ==
    [code |-> 200, kind |-> "summary", queueId |-> queueId, vendorId |-> vendorId,
     currentServingNumber |-> serving, totalInQueue |-> count,
     estimatedWait |-> count * 5]

\* The request arrives: SELECT * FROM queues WHERE vendor_id = ? AND
\* is_active = 1, whose callback creates the queue or counts its entries.
SummaryRequest(vendorId, err) ==
    /\ BagCardinality(req) < MaxReq
    /\ IF err
       THEN /\ req' = req
            /\ res' = ErrRes(500, "summary")
       ELSE LET queue == SelectActiveQueue(vendorId) IN
            /\ req' = Accepted(
                  [Started("summary", IF queue = 0 THEN "createQueue" ELSE "getCount",
                           Num(vendorId), Undefined, Undefined)
                     EXCEPT !.queueId = queue,
                            !.arg = IF queue = 0 THEN 0
                                    ELSE queues[queue].current_serving_number])
            /\ res' = NoRes
    /\ UNCHANGED store

\* if (!queue): INSERT INTO queues ..., answered with the new row's id
SummaryCreateQueue(q, err) ==
    /\ q.op = "summary" /\ q.pc = "createQueue"
    /\ IF err THEN Fail(q)
       ELSE /\ Len(queues) < MaxQueues
            /\ queues' = Append(queues, NewQueue(q.vendorId.v))
            /\ req' = Finished(q)
            /\ res' = SummaryResponse(Len(queues) + 1, q.vendorId.v, 0, 0)
            /\ UNCHANGED <<vendors, queue_entries>>

\* else: SELECT COUNT(*) as count ... status = "waiting"
SummaryGetCount(q, err) ==
    /\ q.op = "summary" /\ q.pc = "getCount"
    /\ IF err THEN Fail(q)
       ELSE /\ req' = Finished(q)
            /\ res' = SummaryResponse(q.queueId, q.vendorId.v, q.arg,
                                      CountWaiting(q.queueId))
            /\ UNCHANGED store

\* ------------------------------ GET /api/queue/status/:queueNumber/:vendorId
\* The sum of the menu's current prices of the dishes of an items list.
RECURSIVE MenuTotal(_)
MenuTotal(items) ==
    IF items = <<>> THEN 0
    ELSE (IF Head(items) \in DishIds THEN dishes[Head(items)].price ELSE 0)
         + MenuTotal(Tail(items))

\* Mutant: the total is computed from the menu when the status is read.
StatusResponseLiveMenu(e, vendorId) ==
    [code |-> 200, kind |-> "status", vendorId |-> vendorId,
     queueNumber |-> queue_entries[e].queue_number,
     position |-> current_position(e),
     estimatedWait |-> current_position(e) * 5,
     status |-> queue_entries[e].status,
     items |-> JSONParse(queue_entries[e].items),
     totalAmount |-> MenuTotal(JSONParse(queue_entries[e].items).v)]

StatusResponse(e, vendorId) ==
    [code |-> 200, kind |-> "status", vendorId |-> vendorId,
     queueNumber |-> queue_entries[e].queue_number,
     position |-> current_position(e),
     estimatedWait |-> current_position(e) * 5,
     status |-> queue_entries[e].status,
     items |-> JSONParse(queue_entries[e].items),
     totalAmount |-> queue_entries[e].total_amount]

\* res.status(404).json({ error: 'Queue entry not found' })
StatusNotFound == ErrRes(404, "status")

\* if (!entry) 404, else the ticket
StatusAnswer(queueNumber, vendorId) ==
    LET entry == SelectStatusRow(queueNumber, vendorId) IN
    IF entry = 0 THEN StatusNotFound ELSE StatusResponse(entry, vendorId)

\* One statement; its callback answers 500, 404 or the ticket.
Status(queueNumber, vendorId, err) ==
    /\ res' = IF err THEN ErrRes(500, "status") ELSE StatusAnswer(queueNumber, vendorId)
    /\ UNCHANGED <<req, store>>

\* ------------------------------------------- GET /api/vendor/:vendorId/queue
\* Mutant: the listing forgets the filter on status.
ListingRowsAll(queueId) == EntriesOf(queueId)

\* SELECT * FROM queue_entries WHERE queue_id = ? AND status IN ("waiting",
\* "preparing")
ListingRows(queueId) ==
    {e \in EntriesOf(queueId) : queue_entries[e].status \in {"waiting", "preparing"}}

\* ORDER BY queue_number ASC: the rows S by queue number (rows of one number in
\* the order of their ids, the order of the table scan).
RECURSIVE OrderByQueueNumber(_)
OrderByQueueNumber(S) ==
    IF S = {} THEN <<>>
    ELSE LET first == CHOOSE e \in S : \A e2 \in S :
                         \/ queue_entries[e].queue_number < queue_entries[e2].queue_number
                         \/ /\ queue_entries[e].queue_number = queue_entries[e2].queue_number
                            /\ e <= e2
         IN <<first>> \o OrderByQueueNumber(S \ {first})

\* entries.map(entry => ({ ...entry, items: JSON.parse(entry.items) }))
ProcessedEntry(e) ==
    [id |-> e, queue_id |-> queue_entries[e].queue_id,
     queue_number |-> queue_entries[e].queue_number,
     items |-> JSONParse(queue_entries[e].items),
     total_amount |-> queue_entries[e].total_amount,
     status |-> queue_entries[e].status,
     estimated_wait |-> queue_entries[e].estimated_wait]

\* res.json({ queue: queue, entries: processedEntries }); queue 0 is null
ListingResponse(vendorId, queueId, rows) ==
    [code |-> 200, kind |-> "listing", vendorId |-> vendorId, queue |-> queueId,
     entries |-> [i \in 1..Len(rows) |-> ProcessedEntry(rows[i])]]

\* The request arrives: SELECT * FROM queues WHERE vendor_id = ? AND
\* is_active = 1, whose callback answers { queue: null, entries: [] } or reads
\* the entries.
ListingRequest(vendorId, err) ==
    /\ BagCardinality(req) < MaxReq
    /\ IF err
       THEN /\ req' = req
            /\ res' = ErrRes(500, "listing")
       ELSE LET queue == SelectActiveQueue(vendorId) IN
            IF queue = 0
            THEN /\ req' = req
                 /\ res' = ListingResponse(vendorId, 0, <<>>)
            ELSE /\ req' = Accepted(
                       [Started("listing", "getEntries", Num(vendorId), Undefined,
                                Undefined) EXCEPT !.queueId = queue])
                 /\ res' = NoRes
    /\ UNCHANGED store

\* db.all(SELECT * FROM queue_entries ... ORDER BY queue_number ASC)
ListingGetEntries(q, err) ==
    /\ q.op = "listing" /\ q.pc = "getEntries"
    /\ IF err THEN Fail(q)
       ELSE /\ req' = Finished(q)
            /\ res' = ListingResponse(q.vendorId.v, q.queueId,
                                      OrderByQueueNumber(ListingRows(q.queueId)))
            /\ UNCHANGED store

\* ------------------------------ POST /api/vendor/queue/complete/:queueEntryId
\* Mutant: the UPDATE has no WHERE id = ?.
UpdateCompletedAll(queueEntryId) ==
    [e \in 1..Len(queue_entries) |-> [queue_entries[e] EXCEPT !.status = "completed"]]

\* Mutant: the handler marks the order ready.
UpdateReady(queueEntryId) ==
    [e \in 1..Len(queue_entries) |->
        IF e = queueEntryId THEN [queue_entries[e] EXCEPT !.status = "ready"]
        ELSE queue_entries[e]]

\* Mutant: the UPDATE also resets estimated_wait.
UpdateCompletedClearsWait(queueEntryId) ==
    [e \in 1..Len(queue_entries) |->
        IF e = queueEntryId
        THEN [queue_entries[e] EXCEPT !.status = "completed", !.estimated_wait = 0]
        ELSE queue_entries[e]]

\* UPDATE queue_entries SET status = "completed" ... WHERE id = ?
UpdateCompleted(queueEntryId) ==
    [e \in 1..Len(queue_entries) |->
        IF e = queueEntryId THEN [queue_entries[e] EXCEPT !.status = "completed"]
        ELSE queue_entries[e]]

\* The status the entry had when the request arrived ("none": no such entry):
\* not part of the response, kept with it to tell what the call was made on.
StatusBefore(queueEntryId) ==
    IF queueEntryId \in 1..Len(queue_entries) THEN queue_entries[queueEntryId].status
    ELSE "none"

\* res.json({ success: true, message: 'Order marked as completed' }) or
\* res.status(500).json(...), with the request
CompleteResponse(queueEntryId, err) ==
    [code |-> IF err THEN 500 ELSE 200, kind |-> "complete",
     queueEntryId |-> queueEntryId, was |-> StatusBefore(queueEntryId),
     success |-> ~err]

\* Mutant: completing an order advances the queue's current_serving_number.
CompleteAdvancesServing(queueEntryId, err) ==
    /\ queue_entries' = IF err THEN queue_entries ELSE UpdateCompleted(queueEntryId)
    /\ queues' =
          IF err \/ queueEntryId \notin 1..Len(queue_entries) THEN queues
          ELSE [q \in 1..Len(queues) |->
                  IF q = queue_entries[queueEntryId].queue_id
                  THEN [queues[q] EXCEPT !.current_serving_number =
                                            queue_entries[queueEntryId].queue_number]
                  ELSE queues[q]]
    /\ res' = CompleteResponse(queueEntryId, err)
    /\ UNCHANGED <<req, vendors>>

Complete(queueEntryId, err) ==
    /\ queue_entries' = IF err THEN queue_entries ELSE UpdateCompleted(queueEntryId)
    /\ res' = CompleteResponse(queueEntryId, err)
    /\ UNCHANGED <<req, vendors, queues>>

\* ------------------------------------------------------ PUT /api/vendors/:id
\* Mutant: going offline closes the vendor's queues.
UpdateVendorClosesQueue(id, isOnline, err) ==
    /\ IF err
       THEN /\ res' = ErrRes(500, "vendor")
            /\ UNCHANGED <<vendors, queues>>
       ELSE /\ vendors' = [vendors EXCEPT ![id].isOnline = isOnline]
            /\ queues' = [q \in 1..Len(queues) |->
                             IF queues[q].vendor_id = id /\ ~isOnline
                             THEN [queues[q] EXCEPT !.is_active = FALSE]
                             ELSE queues[q]]
            /\ res' = [code |-> 200, kind |-> "vendor"]
    /\ UNCHANGED <<req, queue_entries>>

\* UPDATE vendors SET ..., isOnline = ?, ... WHERE id = ?
UpdateVendor(id, isOnline, err) ==
    /\ IF err
       THEN /\ res' = ErrRes(500, "vendor")
            /\ UNCHANGED vendors
       ELSE /\ vendors' = [vendors EXCEPT ![id].isOnline = isOnline]
            /\ res' = [code |-> 200, kind |-> "vendor"]
    /\ UNCHANGED <<req, queues, queue_entries>>

\* ------------------------------------------------------- PUT /api/dishes/:id
\* UPDATE dishes SET name = ?, description = ?, price = ?, ... WHERE id = ?
UpdateDish(id, price, err) ==
    /\ IF err
       THEN /\ res' = ErrRes(500, "dish")
            /\ UNCHANGED dishes
       ELSE /\ dishes' = [d \in DishIds |->
                            IF d = id THEN [dishes[d] EXCEPT !.price = price]
                            ELSE dishes[d]]
            /\ res' = [code |-> 200, kind |-> "dish"]
    /\ UNCHANGED <<req, store>>

\* ------------------------------------------- QueueSystem (the ticket view)
\* The props: the vendor the view is opened for, and the customer's cart,
\* which joinQueue reads when the button is clicked: empty, one dish of the
\* menu, or one dish the dishes prop does not hold (dish 3: its name is
\* 'Unknown' and it counts 0 in the total).  The dishes prop is the menu as the
\* server holds it.  The component lives once: it is mounted at the start and
\* not opened again after a close.  vendorQueueInfo, fetched once on mount for
\* the display of the join view, is left out: neither joinQueue nor the
\* polling effect reads it.
TicketVendor == 1
CartInputs == {Arr(<<>>), Arr(<<1>>), Arr(<<3>>)}

\* calculateTotal(): the sum over the cart of dish ? dish.price * quantity : 0
calculateTotal(cartItems) == MenuTotal(cartItems.v)

\* A request of the component under way: its kind, how far it has got (sent,
\* atServer, answered), the variables its callback closes over, and the
\* response once the server sent one.
Fetch(op, queueNumber, position, items) ==
    [op |-> op, phase |-> "sent", queueNumber |-> queueNumber, position |-> position,
     items |-> items, data |-> NoRes]

Fetching == BagToSet(fetches)

Sent(f) == fetches (+) SetToBag({f})
Over(f) == fetches (-) SetToBag({f})
Answer(f, data) ==
    (fetches (-) SetToBag({f})) (+) SetToBag({[f EXCEPT !.phase = "answered", !.data = data]})

\* A step of the component alone: no request is handled, no response sent.
ServerIdle ==
    /\ res' = NoRes
    /\ UNCHANGED <<vendors, queues, queue_entries, req, dishes>>

\* useEffect(..., [queueStatus.isInQueue, queueStatus.queueNumber,
\* queueStatus.position, ...]): after a render that changed one of them the
\* old interval is cleared and, if (queueStatus.isInQueue &&
\* queueStatus.queueNumber), a new one set whose callback closes over the
\* queueStatus of that render.
PollingEffect(status, isMounted) ==
    IF isMounted /\ status.isInQueue /\ Truthy(status.queueNumber)
    THEN [on |-> TRUE, queueNumber |-> status.queueNumber, position |-> status.position]
    ELSE [on |-> FALSE, queueNumber |-> Null, position |-> Null]

\* setQueueStatus, setIsJoining: a state update of an unmounted component is
\* dropped; the effects run after the render.
Render(status, joining) ==
    /\ queueStatus' = IF mounted THEN status ELSE queueStatus
    /\ isJoining' = IF mounted THEN joining ELSE isJoining
    /\ interval' = PollingEffect(queueStatus', mounted)
    /\ UNCHANGED mounted

\* joinQueue(): the Join Queue button, shown while not in queue and enabled
\* unless isJoining or the cart is empty; setIsJoining(true), then the fetch.
joinQueue(cartItems) ==
    /\ mounted /\ ~queueStatus.isInQueue
    /\ ~isJoining /\ cartItems.v # <<>>
    /\ fetches' = Sent(Fetch("join", Null, Null, cartItems))
    /\ Render(queueStatus, TRUE)
    /\ notifications' = <<>> /\ console' = <<>>
    /\ ServerIdle

\* The component's join reaches the server, when no other request is in
\* flight there: either it is answered at once (400, 500) or its statements
\* follow.
JoinFetchArrives(f, err) ==
    /\ f.op = "join" /\ f.phase = "sent"
    /\ NoneInFlight /\ Room(MaxEntries)
    /\ JoinRequest(Num(TicketVendor), f.items, Num(calculateTotal(f.items)), err)
    /\ fetches' = IF res'.kind = "join" THEN Answer(f, res')
                  ELSE Over(f) (+) SetToBag({[f EXCEPT !.phase = "atServer"]})
    /\ notifications' = <<>> /\ console' = <<>>
    /\ UNCHANGED <<dishes, queueStatus, isJoining, mounted, interval>>

\* A statement of a join ran at the server: its response, if it sent one, is
\* the answer to the component's join when that is the join at the server.
JoinFetchServed ==
    /\ fetches' =
          IF res'.kind = "join" /\ \E f \in Fetching : f.phase = "atServer"
          THEN Answer(CHOOSE f \in Fetching : f.phase = "atServer", res')
          ELSE fetches
    /\ notifications' = <<>> /\ console' = <<>>
    /\ UNCHANGED <<dishes, queueStatus, isJoining, mounted, interval>>

\* const data = await response.json(); if (data.success) { setQueueStatus,
\* onNotification('Joined Queue!') } else throw; catch: console.error,
\* onNotification('Queue Error'); finally setIsJoining(false)
JoinFetchAnswered(f) ==
    /\ f.op = "join" /\ f.phase = "answered"
    /\ fetches' = Over(f)
    /\ IF f.data.code = 200
       THEN /\ Render([isInQueue |-> TRUE, queueNumber |-> Num(f.data.queueNumber),
                       position |-> Num(f.data.position),
                       estimatedWait |-> Num(f.data.estimatedWait),
                       status |-> "waiting", items |-> f.items,
                       totalAmount |-> calculateTotal(f.items)], FALSE)
            /\ notifications' = <<"Joined Queue!">>
            /\ console' = <<>>
       ELSE /\ Render(queueStatus, FALSE)
            /\ notifications' = <<"Queue Error">>
            /\ console' = <<"Error joining queue:">>
    /\ ServerIdle

\* Mutant: the finally block is missing, isJoining stays true.
JoinFetchFailsStaysJoining(f) ==
    /\ f.op = "join"
    /\ fetches' = Over(f)
    /\ Render(queueStatus, isJoining)
    /\ notifications' = <<"Queue Error">>
    /\ console' = <<"Error joining queue:">>
    /\ ServerIdle

\* The fetch of the join rejects (the network failed, on the way there or
\* back): catch and finally as above.
JoinFetchFails(f) ==
    /\ f.op = "join"
    /\ fetches' = Over(f)
    /\ Render(queueStatus, FALSE)
    /\ notifications' = <<"Queue Error">>
    /\ console' = <<"Error joining queue:">>
    /\ ServerIdle

\* The interval fires: fetch(`/api/queue/status/${queueStatus.queueNumber}/
\* ${vendorId}`), with the queueStatus of the callback's closure.
Tick ==
    /\ interval.on
    /\ BagCardinality(fetches) < MaxPolls
    /\ fetches' = Sent(Fetch("status", interval.queueNumber, interval.position,
                             Undefined))
    /\ notifications' = <<>> /\ console' = <<>>
    /\ UNCHANGED <<queueStatus, isJoining, mounted, interval>>
    /\ ServerIdle

\* The poll reaches the server, which answers it.
PollServed(f, err) ==
    /\ f.op = "status" /\ f.phase = "sent"
    /\ Status(f.queueNumber.v, TicketVendor, err)
    /\ fetches' = Answer(f, res')
    /\ notifications' = <<>> /\ console' = <<>>
    /\ UNCHANGED <<dishes, queueStatus, isJoining, mounted, interval>>

\* The notifications of a poll answered with data, in the order of the code:
\* if (previousPosition && data.position < previousPosition) 'Queue Update';
\* if (data.status === 'ready') 'Order Ready!'
PollNotifications(previousPosition, data) ==
    (IF Truthy(previousPosition) /\ data.position < previousPosition.v
     THEN <<"Queue Update">> ELSE <<>>)
    \o (IF data.status = "ready" THEN <<"Order Ready!">> ELSE <<>>)

\* Mutant: setQueueStatus leaves out status: data.status.
PollAnsweredKeepsStatus(f) ==
    /\ f.op = "status" /\ f.phase = "answered"
    /\ fetches' = Over(f)
    /\ IF f.data.code = 200
       THEN /\ Render([queueStatus EXCEPT !.position = Num(f.data.position),
                                          !.estimatedWait = Num(f.data.estimatedWait)],
                      isJoining)
            /\ notifications' = PollNotifications(f.position, f.data)
       ELSE /\ Render(queueStatus, isJoining)
            /\ notifications' = <<>>
    /\ console' = <<>>
    /\ ServerIdle

\* The response of a poll arrives: if (response.ok) { const previousPosition
\* = queueStatus.position (of the closure); setQueueStatus(prev => ({...prev,
\* position, estimatedWait, status})); the notifications }
PollAnswered(f) ==
    /\ f.op = "status" /\ f.phase = "answered"
    /\ fetches' = Over(f)
    /\ IF f.data.code = 200
       THEN /\ Render([queueStatus EXCEPT !.position = Num(f.data.position),
                                          !.estimatedWait = Num(f.data.estimatedWait),
                                          !.status = f.data.status], isJoining)
            /\ notifications' = PollNotifications(f.position, f.data)
       ELSE /\ Render(queueStatus, isJoining)
            /\ notifications' = <<>>
    /\ console' = <<>>
    /\ ServerIdle

\* Mutant: the catch of a failed poll clears the interval.
PollFailsStopsPolling(f) ==
    /\ f.op = "status"
    /\ fetches' = Over(f)
    /\ notifications' = <<>>
    /\ console' = <<"Error polling queue status:">>
    /\ interval' = PollingEffect(queueStatus, FALSE)
    /\ UNCHANGED <<queueStatus, isJoining, mounted>>
    /\ ServerIdle

\* The fetch of a poll rejects (the network failed, on the way there or
\* back): catch (error) { console.error('Error polling queue status:') }
PollFails(f) ==
    /\ f.op = "status"
    /\ fetches' = Over(f)
    /\ notifications' = <<>>
    /\ console' = <<"Error polling queue status:">>
    /\ UNCHANGED <<queueStatus, isJoining, mounted, interval>>
    /\ ServerIdle

\* The view is closed: the component unmounts and the effect's cleanup runs,
\* clearInterval(interval).  The requests under way are not aborted.
Close ==
    /\ mounted
    /\ mounted' = FALSE
    /\ interval' = PollingEffect(queueStatus, FALSE)
    /\ notifications' = <<>> /\ console' = <<>>
    /\ UNCHANGED <<queueStatus, isJoining, fetches>>
    /\ ServerIdle

\* ---------------------------------------------------------- specifications
\* The pending statement of a request in flight runs.
JoinSteps ==
    \/ \E q \in InFlight, err \in BOOLEAN : JoinCreateQueue(q, err) /\ QueueOnly
    \/ \E q \in InFlight, err \in BOOLEAN : JoinGetMax(q, err) /\ QueueOnly
    \/ \E q \in InFlight, err \in BOOLEAN : JoinGetCount(q, err) /\ QueueOnly
    \/ \E q \in InFlight, err \in BOOLEAN : JoinInsert(q, err) /\ QueueOnly

SummarySteps ==
    \/ \E q \in InFlight, err \in BOOLEAN : SummaryCreateQueue(q, err) /\ QueueOnly
    \/ \E q \in InFlight, err \in BOOLEAN : SummaryGetCount(q, err) /\ QueueOnly

Steps == JoinSteps \/ SummarySteps

ListingSteps ==
    \E q \in InFlight, err \in BOOLEAN : ListingGetEntries(q, err) /\ QueueOnly

\* The queue handlers of one statement.
Single ==
    \/ \E queueNumber \in 1..MaxEntries, vendorId \in Vendors, err \in BOOLEAN :
        Status(queueNumber, vendorId, err) /\ QueueOnly
    \/ \E queueEntryId \in 1..(MaxEntries + 1), err \in BOOLEAN :
        Complete(queueEntryId, err) /\ QueueOnly

\* The vendor goes online or offline.
Presence ==
    \E id \in Vendors, isOnline \in BOOLEAN, err \in BOOLEAN :
        UpdateVendor(id, isOnline, err) /\ QueueOnly

\* The vendor edits the price of a dish.
Menu ==
    \E id \in DishIds, price \in Prices, err \in BOOLEAN :
        UpdateDish(id, price, err) /\ Untouched

\* A request of several statements arrives, when `free` allows it.
JoinArrives(free) ==
    \E vendorId \in VendorIdInputs, items \in ItemsInputs,
       totalAmount \in TotalInputs, err \in BOOLEAN :
        /\ free /\ Room(MaxEntries)
        /\ JoinRequest(vendorId, items, totalAmount, err) /\ QueueOnly

SummaryArrives(free) ==
    \E vendorId \in Vendors, err \in BOOLEAN :
        free /\ SummaryRequest(vendorId, err) /\ QueueOnly

ListingArrives(free) ==
    \E vendorId \in Vendors, err \in BOOLEAN :
        free /\ ListingRequest(vendorId, err) /\ QueueOnly

\* Requests arrive at any time: the statements of up to MaxReq requests
\* interleave.
Next == JoinArrives(TRUE) \/ SummaryArrives(TRUE) \/ Single \/ Steps

Spec == Init /\ [][Next]_vars

\* Joins alone, arriving at any time.
NextJoins == JoinArrives(TRUE) \/ JoinSteps

SpecJoins == Init /\ [][NextJoins]_vars

\* Customers of one vendor, each with a valid order, up to MaxRaceEntries
\* tickets: their joins arrive at any time and interleave, among status reads
\* and completes of any of the tickets.
RaceJoinArrives ==
    \E err \in BOOLEAN :
        /\ Room(MaxRaceEntries)
        /\ JoinRequest(Num(TicketVendor), Arr(<<1>>), Num(12), err) /\ QueueOnly

RaceSingle ==
    \/ \E queueNumber \in 1..MaxRaceEntries, err \in BOOLEAN :
        Status(queueNumber, TicketVendor, err) /\ QueueOnly
    \/ \E queueEntryId \in 1..MaxRaceEntries, err \in BOOLEAN :
        Complete(queueEntryId, err) /\ QueueOnly

NextRace == RaceJoinArrives \/ JoinSteps \/ RaceSingle

SpecRace == Init /\ [][NextRace]_vars

\* Joins run one at a time: a join arrives only when no join is in flight.
NextJoinSeq == JoinArrives(NoJoinInFlight) \/ SummaryArrives(TRUE) \/ Single \/ Steps

SpecJoinSeq == Init /\ [][NextJoinSeq]_vars

\* Serialized access: every handler runs to completion before the next request.
NextSerial ==
    \/ JoinArrives(NoneInFlight)
    \/ SummaryArrives(NoneInFlight)
    \/ NoneInFlight /\ Single
    \/ NoneInFlight /\ Presence
    \/ Steps
    \/ ListingArrives(NoneInFlight)
    \/ ListingSteps

SpecSerial == Init /\ [][NextSerial]_vars

\* Joins, status reads and completes one after another, with the menu edited
\* between them.
NextMenu ==
    \/ JoinArrives(NoneInFlight)
    \/ NoneInFlight /\ Single
    \/ NoneInFlight /\ Menu
    \/ JoinSteps

SpecMenu == Init /\ [][NextMenu]_vars

\* The ticket view and the server: the component joins and polls, other
\* customers join and the vendor completes; the server handles one request
\* at a time, and responses reach the component at any later time.
NextView ==
    \/ \E cartItems \in CartInputs : joinQueue(cartItems)
    \/ \E f \in Fetching, err \in BOOLEAN : JoinFetchArrives(f, err)
    \/ \E q \in InFlight, err \in BOOLEAN : JoinCreateQueue(q, err) /\ JoinFetchServed
    \/ \E q \in InFlight, err \in BOOLEAN : JoinGetMax(q, err) /\ JoinFetchServed
    \/ \E q \in InFlight, err \in BOOLEAN : JoinGetCount(q, err) /\ JoinFetchServed
    \/ \E q \in InFlight, err \in BOOLEAN : JoinInsert(q, err) /\ JoinFetchServed
    \/ \E f \in Fetching : JoinFetchAnswered(f)
    \/ \E f \in Fetching : JoinFetchFails(f)
    \/ Tick
    \/ \E f \in Fetching, err \in BOOLEAN : PollServed(f, err)
    \/ \E f \in Fetching : PollAnswered(f)
    \/ \E f \in Fetching : PollFails(f)
    \/ Close
    \/ JoinArrives(NoneInFlight)
    \/ \E queueEntryId \in 1..MaxEntries, err \in BOOLEAN :
          Complete(queueEntryId, err) /\ QueueOnly

SpecView == Init /\ [][NextView]_vars

\* The same, with the timer running and the polls succeeding: while set, the
\* interval fires again; an answered fetch comes to its end, resolved or
\* rejected; the server answers polls, and responses with data reach the
\* component, again and again.
PollSucceeds == \E f \in Fetching : PollServed(f, FALSE)

PollArrives == \E f \in Fetching : f.data.code = 200 /\ PollAnswered(f)

PollEnds == \E f \in Fetching : f.phase = "answered" /\ (PollAnswered(f) \/ PollFails(f))

SpecViewLive ==
    /\ SpecView
    /\ WF_vars(Tick)
    /\ WF_vars(PollEnds)
    /\ SF_vars(PollSucceeds)
    /\ SF_vars(PollArrives)

\* ------------------------------------------------------------------ claims
\* The tickets of a vendor: the entries of its queues.
TicketsOf(v) ==
    {e \in 1..Len(queue_entries) : queues[queue_entries[e].queue_id].vendor_id = v}

NumbersOf(S) == {queue_entries[e].queue_number : e \in S}

JoinAnswered == res.kind = "join" /\ res.code = 200

StatusAnswered == res.kind = "status" /\ res.code = 200

\* C1: joins for the same vendor that run concurrently yield distinct tickets
\* whose queue numbers are exactly 1..M, M the number of tickets.
C1_ConcurrentJoinsNumbered ==
    \A v \in Vendors :
        /\ Cardinality(NumbersOf(TicketsOf(v))) = Cardinality(TicketsOf(v))
        /\ NumbersOf(TicketsOf(v)) = 1..Cardinality(TicketsOf(v))

\* C2: with joins run one at a time, among completes, status reads and queue
\* summaries at any time, no two entries of a queue have the same queue number.
C2_UniqueQueueNumbers ==
    \A e1, e2 \in 1..Len(queue_entries) :
        (/\ e1 # e2
         /\ queue_entries[e1].queue_id = queue_entries[e2].queue_id)
            => queue_entries[e1].queue_number # queue_entries[e2].queue_number

\* Two tickets in one queue, the first of them completed before the second
\* joined (the second's stored wait is that of position 1).
C2_Witness ==
    \E e1, e2 \in 1..Len(queue_entries) :
        /\ e1 < e2
        /\ queue_entries[e1].queue_id = queue_entries[e2].queue_id
        /\ queue_entries[e1].status = "completed"
        /\ queue_entries[e2].estimated_wait = 5

\* C3: with joins run one at a time, the k-th join to a queue is given queue
\* number k and answers with it, whatever was completed in between.
C3_SequentialNumbers ==
    /\ \A e \in 1..Len(queue_entries) :
          queue_entries[e].queue_number =
              Cardinality({e2 \in EntriesOf(queue_entries[e].queue_id) : e2 <= e})
    /\ JoinAnswered =>
          /\ res.queueNumber = Cardinality(EntriesOf(res.queueId))
          /\ queue_entries[res.queueEntryId].queue_number = res.queueNumber
          /\ queue_entries[res.queueEntryId].queue_id = res.queueId

\* The second join to a queue is answered with number 2 after ticket 1 of
\* that queue was completed.
C3_Witness ==
    /\ JoinAnswered
    /\ res.queueNumber = 2
    /\ \E e \in EntriesOf(res.queueId) :
          queue_entries[e].queue_number = 1 /\ queue_entries[e].status = "completed"

\* The waiting entries of e's queue with a smaller queue number.
WaitingBefore(e) ==
    {e2 \in 1..Len(queue_entries) :
        /\ queue_entries[e2].queue_id = queue_entries[e].queue_id
        /\ queue_entries[e2].status = "waiting"
        /\ queue_entries[e2].queue_number < queue_entries[e].queue_number}

\* C4: after any sequence of joins and completes, status(queueNumber, vendorId)
\* for an existing ticket answers with that ticket's status and position = 1 +
\* the number of waiting entries of its queue with a smaller queue number.
C4_StatusPosition ==
    /\ \A v \in Vendors : \A e \in TicketsOf(v) :
          LET answer == StatusAnswer(queue_entries[e].queue_number, v) IN
          /\ answer.code = 200
          /\ answer.queueNumber = queue_entries[e].queue_number
          /\ answer.status = queue_entries[e].status
          /\ answer.position = 1 + Cardinality(WaitingBefore(e))
    /\ StatusAnswered =>
          \E t \in TicketsOf(res.vendorId) :
              /\ queue_entries[t].queue_number = res.queueNumber
              /\ res.status = queue_entries[t].status
              /\ res.position = 1 + Cardinality(WaitingBefore(t))

\* A status call answers position 1 for ticket 2 of a queue whose ticket 1 is
\* completed.
C4_Witness ==
    /\ StatusAnswered
    /\ res.queueNumber = 2
    /\ res.position = 1
    /\ \E e \in TicketsOf(res.vendorId) :
          queue_entries[e].queue_number = 1 /\ queue_entries[e].status = "completed"

\* C5: under serialized access the position a join answers is 1 + the number
\* of waiting entries of the queue with a smaller number, which is what a
\* status call for the ticket answers right after; the first ticket of a queue
\* has position 1 and number 1.
C5_JoinPosition ==
    JoinAnswered =>
        /\ res.position = 1 + Cardinality(WaitingBefore(res.queueEntryId))
        /\ StatusAnswer(res.queueNumber, res.vendorId).code = 200
        /\ StatusAnswer(res.queueNumber, res.vendorId).position = res.position
        /\ Cardinality(EntriesOf(res.queueId)) = 1 =>
              res.position = 1 /\ res.queueNumber = 1

\* A join is answered number 2, position 1: ticket 1 was completed before.
C5_Witness ==
    /\ JoinAnswered
    /\ res.queueNumber = 2
    /\ res.position = 1
    /\ WaitingBefore(res.queueEntryId) = {}

\* C6: every join response and every status response has estimatedWait =
\* position * 5.
C6_WaitEstimate ==
    /\ (JoinAnswered \/ StatusAnswered) => res.estimatedWait = res.position * 5
    /\ \A v \in Vendors, n \in 1..MaxEntries :
          StatusAnswer(n, v).code = 200 =>
              StatusAnswer(n, v).estimatedWait = StatusAnswer(n, v).position * 5

\* A join answered with position 2 and a wait of 10 minutes.
C6_Witness == JoinAnswered /\ res.position = 2 /\ res.estimatedWait = 10

\* C7: a complete call on an entry that is already completed leaves it
\* completed and the tables unchanged, and answers success unless the store
\* failed.
C7_CompleteIdempotent ==
    [][(res'.kind = "complete" /\ res'.was = "completed") =>
          /\ queue_entries' = queue_entries
          /\ queues' = queues
          /\ queue_entries'[res'.queueEntryId].status = "completed"
          /\ res'.code # 500 => (res'.code = 200 /\ res'.success)]_vars

\* A second complete call answered with success while another ticket waits.
C7_Witness ==
    /\ res.kind = "complete"
    /\ res.was = "completed"
    /\ res.code = 200
    /\ \E e \in 1..Len(queue_entries) : queue_entries[e].status = "waiting"

\* C8: each vendor has at most one queue row with is_active = 1.
C8_OneActiveQueue ==
    \A v \in Vendors : Cardinality(ActiveQueueIds(v)) <= 1

\* C9: a join for a vendor that is offline is rejected (no entry is created
\* for it).
C9_OfflineJoinRejected ==
    JoinAnswered => vendors[res.vendorId].isOnline

\* a body field the request does not carry
IsMissing(x) == x.t = "undefined"

\* C10: a join request with vendorId, items or totalAmount missing is answered
\* 400 and changes neither the tables nor the requests in flight.
C10_MissingFieldsRejected ==
    [][\A vendorId \in VendorIdInputs, items \in ItemsInputs,
          totalAmount \in TotalInputs, err \in BOOLEAN :
          (/\ IsMissing(vendorId) \/ IsMissing(items) \/ IsMissing(totalAmount)
           /\ JoinRequest(vendorId, items, totalAmount, err))
             => /\ res' = ErrRes(400, "join")
                /\ UNCHANGED <<vendors, queues, queue_entries, req>>]_vars

\* A join was just rejected by a vendor whose queue holds a ticket.
C10_Witness ==
    /\ res = ErrRes(400, "join")
    /\ queue_entries # <<>>
    /\ req = EmptyBag

\* C11: a join request whose items list is empty is rejected: no entry holds
\* an empty items list.
C11_EmptyItemsRejected ==
    \A e \in 1..Len(queue_entries) : JSONParse(queue_entries[e].items) # Arr(<<>>)

\* C12: a join request with a vendorId, a non-empty items list and a
\* totalAmount that is a number >= 0, 0 included, passes validation: it is
\* not answered 400.
C12_ZeroTotalAdmitted ==
    [][\A vendorId \in VendorIdInputs, items \in ItemsInputs,
          totalAmount \in TotalInputs, err \in BOOLEAN :
          (/\ vendorId.t = "number"
           /\ items.t = "array" /\ items.v # <<>>
           /\ totalAmount.t = "number" /\ totalAmount.v >= 0
           /\ JoinRequest(vendorId, items, totalAmount, err))
             => res' # ErrRes(400, "join")]_vars

\* C13: a status lookup for a vendor and a queue number that no ticket of the
\* vendor carries (the vendor has no queue, or the number was never issued for
\* it) answers 404 unless the store failed, with no ticket field in either
\* case, and changes nothing in the tables: no queue is created.
C13_StatusNotFound ==
    [][\A queueNumber \in 1..MaxEntries, vendorId \in Vendors, err \in BOOLEAN :
          (/\ queueNumber \notin NumbersOf(TicketsOf(vendorId))
           /\ Status(queueNumber, vendorId, err))
             => /\ ~err => res' = StatusNotFound
                /\ DOMAIN res' = {"code", "kind"}
                /\ res'.code \in {404, 500}
                /\ UNCHANGED <<vendors, queues, queue_entries>>]_vars

\* A status call was just answered 404 while another vendor holds a ticket and
\* some vendor has no queue.
C13_Witness ==
    /\ res = StatusNotFound
    /\ queue_entries # <<>>
    /\ \E v \in Vendors : ActiveQueueIds(v) = {}

\* C14: a complete call whose queueEntryId identifies no entry is answered
\* not found (or with the store's failure), never success.
C14_CompleteUnknownNotFound ==
    (res.kind = "complete" /\ res.was = "none") =>
        (res.code \in {404, 500} /\ ~res.success)

\* C15: with joins run one at a time, a join that ends in a store failure, at
\* any of its statements, leaves the queue entries as they were and consumes
\* no queue number: the number the next join reads for any queue is the one it
\* would have read before, and is the number the failed join had read.
C15_FailedJoinNotApplied ==
    [][(res'.kind = "join" /\ res'.code = 500) =>
          /\ queue_entries' = queue_entries
          /\ \A id \in 1..Len(queues) : NextQueueNumber(id)' = NextQueueNumber(id)
          /\ \/ req' = req
             \/ \E q \in JoinsInFlight :
                   /\ req' = Finished(q)
                   /\ q.pc \in {"getCount", "insert"} =>
                         NextQueueNumber(q.queueId)' = q.nextQueueNumber]_vars

\* A join has just failed on a queue that holds a ticket, and no join is in
\* flight: the failed join was the second of the queue.
C15_Witness ==
    /\ res = ErrRes(500, "join")
    /\ NoJoinInFlight
    /\ \E id \in 1..Len(queues) : NextQueueNumber(id) = 2

\* The ticket a join has just been answered for reads back, through status,
\* with the items and the total of the request.
JoinedTicketKept ==
    JoinAnswered =>
        /\ StatusResponse(res.queueEntryId, res.vendorId).items = res.items
        /\ StatusResponse(res.queueEntryId, res.vendorId).totalAmount = res.totalAmount

\* C16: the items and the totalAmount status returns for a ticket are those
\* passed to the join that created it: they are when the join is answered,
\* and no later step (a dish edit, another join, a complete) changes them.
C16_TicketSnapshot ==
    [][/\ JoinedTicketKept'
       /\ \A e \in 1..Len(queue_entries), v \in Vendors :
             /\ StatusResponse(e, v)'.items = StatusResponse(e, v).items
             /\ StatusResponse(e, v)'.totalAmount = StatusResponse(e, v).totalAmount]_vars

\* A ticket of one dish, bought at 12, whose dish now costs 15.
C16_Witness ==
    \E e \in 1..Len(queue_entries) :
        /\ StatusResponse(e, 1).items = Arr(<<1>>)
        /\ StatusResponse(e, 1).totalAmount = 12
        /\ dishes[1].price = 15
        /\ queue_entries[e].status = "completed"

ListingAnswered == res.kind = "listing" /\ res.code = 200

\* C17: under serialized access, the vendor's listing returns exactly the
\* entries of the vendor's active queue whose status is waiting, preparing or
\* ready, each once, in strictly ascending order of queue number, and no
\* completed entry; with no queue it returns no entry.
C17_ListingNonTerminal ==
    ListingAnswered =>
        LET queue == SelectActiveQueue(res.vendorId)
            n == Len(res.entries)
        IN /\ res.queue = queue
           /\ {res.entries[i].id : i \in 1..n} =
                 {e \in 1..Len(queue_entries) :
                     /\ queue_entries[e].queue_id = queue
                     /\ queue_entries[e].status \in {"waiting", "preparing", "ready"}}
           /\ \A i, j \in 1..n :
                 i < j => res.entries[i].queue_number < res.entries[j].queue_number
           /\ \A i \in 1..n :
                 /\ res.entries[i].status # "completed"
                 /\ res.entries[i].queue_number = queue_entries[res.entries[i].id].queue_number
                 /\ res.entries[i].status = queue_entries[res.entries[i].id].status

\* A listing of one entry, ticket 2, of a queue whose ticket 1 is completed.
C17_Witness ==
    /\ ListingAnswered
    /\ Len(res.entries) = 1
    /\ res.entries[1].queue_number = 2
    /\ \E e \in EntriesOf(res.queue) : queue_entries[e].status = "completed"

\* C18: a status call is issued only while the view is open and the status
\* the component observed last is not terminal: once a poll has returned
\* completed, no tick issues a status call.
C18_PollsUntilTerminal ==
    [][Tick => (mounted /\ queueStatus.status # "completed")]_vars

\* C19: once the view is closed no new status call is issued, and the
\* response of a status call that was under way is discarded: it raises no
\* notification and changes neither the component's state nor the tables.
C19_ClosedViewDiscards ==
    [][~mounted =>
          /\ ~Tick
          /\ \A f \in Fetching :
                PollAnswered(f) =>
                    /\ notifications' = <<>>
                    /\ queueStatus' = queueStatus
                    /\ UNCHANGED <<vendors, queues, queue_entries>>]_vars

\* C20: a poll that fails (the fetch rejects, or the response is not OK: 404,
\* 500) raises no notification, leaves queueStatus as it was and leaves the
\* interval running, so that the next tick polls again.
C20_FailedPollSilent ==
    [][\A f \in Fetching :
          (PollFails(f) \/ (PollAnswered(f) /\ f.data.code # 200)) =>
              /\ notifications' = <<>>
              /\ queueStatus' = queueStatus
              /\ mounted' = mounted
              /\ interval' = interval]_vars

\* A poll of an open ticket view has just failed, and the interval is running.
C20_Witness ==
    /\ console = <<"Error polling queue status:">>
    /\ mounted /\ queueStatus.isInQueue
    /\ interval.on

\* C21: when the join of an open view fails (the server answers 400 or 500,
\* or the fetch rejects), the component raises exactly one notification, the
\* error one, stays out of the queue with no interval running, and has
\* isJoining false, so that the join button is enabled again.
C21_FailedJoinRetry ==
    [][\A f \in Fetching :
          (JoinFetchFails(f) \/ (JoinFetchAnswered(f) /\ f.data.code # 200)) =>
              /\ notifications' = <<"Queue Error">>
              /\ mounted =>
                    /\ ~queueStatus'.isInQueue
                    /\ ~interval'.on
                    /\ ~isJoining'
                    /\ queueStatus' = queueStatus]_vars

\* A join of the open view has just failed: the error is notified, the
\* component is not in the queue and not joining.
C21_Witness ==
    /\ notifications = <<"Queue Error">>
    /\ mounted
    /\ ~queueStatus.isInQueue /\ ~isJoining
    /\ queue_entries # <<>>

\* C22: a vendor update that sets isOnline to false changes no queue and no
\* queue entry: every ticket keeps its status and queue number, and status
\* answers for it as before, with the same position.
C22_OfflineKeepsTickets ==
    [][\A id \in Vendors, err \in BOOLEAN :
          UpdateVendor(id, FALSE, err) =>
              /\ queues' = queues
              /\ queue_entries' = queue_entries
              /\ \A v \in Vendors, n \in 1..MaxEntries :
                    StatusAnswer(n, v)' = StatusAnswer(n, v)]_vars

\* A vendor update has just been answered; vendor 1 is offline, vendor 2 online
\* (it was updated before), and vendor 1 has a ticket waiting at position 2.
C22_Witness ==
    /\ res = [code |-> 200, kind |-> "vendor"]
    /\ ~vendors[1].isOnline /\ vendors[2].isOnline
    /\ StatusAnswer(2, 1).code = 200
    /\ StatusAnswer(2, 1).status = "waiting"
    /\ StatusAnswer(2, 1).position = 2

\* C23: in every state reached through queue summary, join, status, vendor
\* listing and complete, the status of every entry is waiting or completed,
\* and no status response and no listing carries preparing or ready.
C23_WaitingOrCompleted ==
    /\ \A e \in 1..Len(queue_entries) :
          queue_entries[e].status \in {"waiting", "completed"}
    /\ StatusAnswered => res.status \in {"waiting", "completed"}
    /\ ListingAnswered =>
          \A i \in 1..Len(res.entries) : res.entries[i].status = "waiting"

\* A status call answered completed while another ticket waits.
C23_Witness ==
    /\ StatusAnswered
    /\ res.status = "completed"
    /\ \E e \in 1..Len(queue_entries) : queue_entries[e].status = "waiting"

\* C24: a queue row, once created, is never changed: every step leaves the
\* rows there are as they were, so is_active stays true and
\* current_serving_number stays 0.
C24_QueuePermanent ==
    [][/\ Len(queues') >= Len(queues)
       /\ \A q \in 1..Len(queues) :
             /\ queues'[q] = queues[q]
             /\ queues'[q].is_active
             /\ queues'[q].current_serving_number = 0]_vars

\* A complete has just been answered for a ticket of a queue that is still
\* active and serving number 0.
C24_Witness ==
    /\ res.kind = "complete" /\ res.code = 200 /\ res.was = "waiting"
    /\ queues[queue_entries[res.queueEntryId].queue_id].is_active
    /\ queues[queue_entries[res.queueEntryId].queue_id].current_serving_number = 0

\* The change a step makes to the position status reports for entry e, of
\* vendor v.
PositionChange(e, v) ==
    StatusAnswer(queue_entries[e].queue_number, v).position'
        - StatusAnswer(queue_entries[e].queue_number, v).position

\* C25: under serialized access, completing a waiting ticket of queue number k
\* lowers by exactly 1 the position status reports for every ticket of the
\* same queue with a number greater than k, and leaves the position of every
\* ticket with a number up to k as it was.
C25_CompleteMovesUp ==
    [][\A queueEntryId \in 1..Len(queue_entries) :
          (/\ queue_entries[queueEntryId].status = "waiting"
           /\ Complete(queueEntryId, FALSE))
             => \A e \in EntriesOf(queue_entries[queueEntryId].queue_id) :
                   LET v == queues[queue_entries[e].queue_id].vendor_id
                       moved == IF queue_entries[e].queue_number >
                                       queue_entries[queueEntryId].queue_number
                                THEN 1 ELSE 0
                   IN /\ current_position(e)' = current_position(e) - moved
                      /\ PositionChange(e, v) = 0 - moved]_vars

\* Ticket 1 of a queue has just been completed while waiting, and status
\* reports position 1 for the waiting ticket 2 of the queue.
C25_Witness ==
    /\ res.kind = "complete" /\ res.code = 200 /\ res.was = "waiting"
    /\ queue_entries[res.queueEntryId].queue_number = 1
    /\ \E e \in EntriesOf(queue_entries[res.queueEntryId].queue_id) :
          /\ queue_entries[e].queue_number = 2
          /\ queue_entries[e].status = "waiting"
          /\ current_position(e) = 1

\* C26: complete(queueEntryId) changes nothing but the status of the entry
\* with that id: its queue number, items, total, queue and stored wait, every
\* other entry and every queue row are as before.
C26_CompleteFrame ==
    [][\A queueEntryId \in 1..(MaxEntries + 1), err \in BOOLEAN :
          Complete(queueEntryId, err) =>
              /\ queues' = queues
              /\ vendors' = vendors
              /\ Len(queue_entries') = Len(queue_entries)
              /\ \A e \in 1..Len(queue_entries) :
                    /\ [queue_entries'[e] EXCEPT !.status = "completed"] =
                          [queue_entries[e] EXCEPT !.status = "completed"]
                    /\ e # queueEntryId =>
                          queue_entries'[e] = queue_entries[e]]_vars

\* A waiting ticket that was joined at position 2 has just been completed,
\* and the other ticket is still waiting.
C26_Witness ==
    /\ res.kind = "complete" /\ res.code = 200 /\ res.was = "waiting"
    /\ queue_entries[res.queueEntryId].estimated_wait = 10
    /\ \E e \in 1..Len(queue_entries) : queue_entries[e].status = "waiting"

\* C27: a successful poll of the open view raises the moved-up notification
\* if and only if the position it returns is strictly less than the position
\* the component observed last (queueStatus.position, from the join response
\* or the last successful poll), and raises it once.
C27_MovedUpOnDecrease ==
    [][\A f \in Fetching :
          (mounted /\ PollAnswered(f) /\ f.data.code = 200) =>
              LET updates == {i \in 1..Len(notifications') :
                                 notifications'[i] = "Queue Update"}
                  decrease == /\ queueStatus.position.t = "number"
                              /\ f.data.position < queueStatus.position.v
              IN /\ Cardinality(updates) <= 1
                 /\ (updates # {}) <=> decrease]_vars

\* C29: the position status reports for a ticket never increases, whatever
\* joins, concurrent ones included, and completes happen between two status
\* calls.
C29_PositionNeverIncreases ==
    [][\A e \in 1..Len(queue_entries) :
          PositionChange(e, queues[queue_entries[e].queue_id].vendor_id) <= 0]_vars

\* C30: with joins and queue summaries of a vendor interleaved in any way, a
\* status call made with the queue number a successful join returned reports
\* the ticket of that join, with the items and the totalAmount the join
\* submitted, and not another customer's ticket.
C30_StatusReportsOwnTicket ==
    JoinAnswered =>
        /\ SelectStatusRow(res.queueNumber, res.vendorId) = res.queueEntryId
        /\ StatusAnswer(res.queueNumber, res.vendorId).items = res.items
        /\ StatusAnswer(res.queueNumber, res.vendorId).totalAmount = res.totalAmount

\* The position, wait and status the component holds for its ticket are
\* those the server derives for it.
Synced ==
    queueStatus.isInQueue =>
        LET answer == StatusAnswer(queueStatus.queueNumber.v, TicketVendor) IN
        /\ answer.code = 200
        /\ queueStatus.position = Num(answer.position)
        /\ queueStatus.estimatedWait = Num(answer.estimatedWait)
        /\ queueStatus.status = answer.status

\* C28: if the view stays open, with polls issued and succeeding again and
\* again, and from some point on no entry is added or completed, then from
\* some point on the position, wait and status held by the component are
\* those the server derives for the ticket.
C28_EventuallySynced ==
    ([]mounted /\ <>[][queue_entries' = queue_entries]_vars) => <>[]Synced

\* The component holds position 1 for its ticket 2, as the server derives it
\* after ticket 1 was completed.
C28_Witness ==
    /\ mounted /\ queueStatus.isInQueue
    /\ queueStatus.queueNumber = Num(2)
    /\ queueStatus.position = Num(1)
    /\ Synced

====
